---- MODULE Spec2Model ----
(***************************************************************************)
(* binaryFieldMul: multiplication in GF(2^256) modulo                      *)
(* f(X) = X^256 + X^10 + X^5 + X^2 + 1 (binary_field_multiplication.go).   *)
(*                                                                         *)
(* A uint64 is modelled as the set of its one-bit positions (a subset of   *)
(* 0..63), so that every bitwise operation of the source is computed on    *)
(* the full 64-bit width: x ^ y is the symmetric difference, x & y the     *)
(* intersection, x | y the union, and a shift moves the positions and      *)
(* drops the ones that leave the word.  A []uint64 is a function on        *)
(* 0..len-1, a []byte a sequence of numbers in 0..255 (Go index i is       *)
(* sequence index i+1).                                                    *)
(***************************************************************************)
EXTENDS Integers, Sequences, FiniteSets

VARIABLES pc, A, B, a, b, c, k, i, C, ops, nops, carry,
          mpc, d3, temp, expected, count

vars == <<pc, A, B, a, b, c, k, i, C, ops, nops, carry,
          mpc, d3, temp, expected, count>>

callVars == <<pc, A, B, a, b, c, k, i, C, ops, nops, carry>>
mainVars == <<mpc, d3, temp, expected, count>>

(***************************************************************************)
(* Program constants.                                                      *)
(***************************************************************************)
W == 64
t == 4
NBytes == 32
LoopCount == 256

(***************************************************************************)
(* Bounds of the model: how many test vectors the caller draws from.       *)
(***************************************************************************)
NumVec == 8
NumSeed == 2

(***************************************************************************)
(* uint64 arithmetic on bit sets.                                          *)
(***************************************************************************)
Pow2(n) == IF n = 0 THEN 1 ELSE IF n = 1 THEN 2 ELSE IF n = 2 THEN 4
           ELSE IF n = 3 THEN 8 ELSE IF n = 4 THEN 16 ELSE IF n = 5 THEN 32
           ELSE IF n = 6 THEN 64 ELSE 128

Xor(x, y) == (x \ y) \cup (y \ x)
And(x, y) == x \cap y
Or(x, y) == x \cup y
Shl(x, n) == {p + n : p \in {q \in x : q + n < W}}
Shr(x, n) == {p - n : p \in {q \in x : q >= n}}

\* unary minus on uint64 (two's complement, wraps modulo 2^64)
Neg(x) ==
    IF x = {} THEN {}
    ELSE LET low == CHOOSE p \in x : \A q \in x : p <= q
         IN  {low} \cup {p \in (low + 1)..(W - 1) : p \notin x}

\* uint64(v) of a byte v
Uint64(v) == {p \in 0..7 : (v \div Pow2(p)) % 2 = 1}

RECURSIVE ByteFrom(_, _)
ByteFrom(x, p) ==
    IF p > 7 THEN 0
    ELSE (IF p \in x THEN Pow2(p) ELSE 0) + ByteFrom(x, p + 1)

\* byte(x): truncate a word to its low 8 bits
Byte(x) == ByteFrom(x, 0)

Zeros(n) == [w \in 0..(n - 1) |-> {}]

(***************************************************************************)
(* Then(x, F): the value of F at x, with x computed to a value first, as   *)
(* a statement's result is before the next statement runs.  (TLC would     *)
(* otherwise carry x along unevaluated through every nested loop.)         *)
(***************************************************************************)
Then(x, F(_)) == CHOOSE r \in {F(v) : v \in {x}} : TRUE

\* Pack with the offset read as i & (0x07 << 3), the precedence of C
RECURSIVE PackFromCPrec(_, _, _)
PackFromCPrec(words, bytes, ii) ==
    IF ii >= NBytes THEN words
    ELSE PackFromCPrec([words EXCEPT ![ii \div 8] =
                            Or(@, Shl(Uint64(bytes[ii + 1]), (ii \div 8) * 8))],
                       bytes, ii + 1)

PackCPrec(bytes, n) == PackFromCPrec(Zeros(n), bytes, 0)

(***************************************************************************)
(* Lines 24-27: condense a byte vector into a word vector of `n` words.    *)
(* i>>3 is the word, (i & 0x07) << 3 the bit offset (in Go & and << have   *)
(* the same precedence and associate to the left).                         *)
(***************************************************************************)
RECURSIVE PackFrom(_, _, _)
PackFrom(words, bytes, ii) ==
    IF ii >= NBytes THEN words
    ELSE PackFrom([words EXCEPT ![ii \div 8] =
                       Or(@, Shl(Uint64(bytes[ii + 1]), (ii % 8) * 8))],
                  bytes, ii + 1)

Pack(bytes, n) == PackFrom(Zeros(n), bytes, 0)

\* the mask without the negation: 0 or 1 instead of 0 or all ones
MaskNoNeg(word, kk) == And(Shr(word, kk), {0})

(***************************************************************************)
(* Line 35: mask := -(a[j] >> k & 0x01)                                    *)
(***************************************************************************)
Mask(word, kk) == Neg(And(Shr(word, kk), {0}))

\* the fold written with a branch on the bit of A: if mask != 0 { ... }
RECURSIVE FoldIBranch(_, _, _, _, _)
FoldIBranch(st, bb, mask, jj, ii) ==
    IF ii >= t + 1 \/ mask = {} THEN st
    ELSE FoldIBranch([c   |-> [st.c EXCEPT ![jj + ii] = Xor(@, bb[ii])],
                      log |-> Append(st.log, <<"xor-and", jj + ii, ii>>)],
                     bb, mask, jj, ii + 1)

\* the fold over t words of b instead of t+1: for i := 0; i < t; i++
RECURSIVE FoldIShort(_, _, _, _, _)
FoldIShort(st, bb, mask, jj, ii) ==
    IF ii >= t THEN st
    ELSE FoldIShort([c   |-> [st.c EXCEPT ![jj + ii] = Xor(@, And(bb[ii], mask))],
                     log |-> Append(st.log, <<"xor-and", jj + ii, ii>>)],
                    bb, mask, jj, ii + 1)

(***************************************************************************)
(* Lines 36-38: for i := 0; i < t+1; i++ { c[j+i] ^= b[i] & mask }         *)
(* The state threaded through the loops is [c, log]; log records every     *)
(* operation with the indices of the elements it reads and writes.         *)
(***************************************************************************)
RECURSIVE FoldI(_, _, _, _, _)
FoldI(st, bb, mask, jj, ii) ==
    IF ii >= t + 1 THEN st
    ELSE FoldI([c   |-> [st.c EXCEPT ![jj + ii] = Xor(@, And(bb[ii], mask))],
                log |-> Append(st.log, <<"xor-and", jj + ii, ii>>)],
               bb, mask, jj, ii + 1)

\* the j loop one word short: for j := 0; j < t-1; j++
RECURSIVE FoldJShort(_, _, _, _, _)
FoldJShort(st, aa, bb, kk, jj) ==
    IF jj >= t - 1 THEN st
    ELSE FoldJShort(FoldI([c   |-> st.c,
                           log |-> Append(st.log, <<"mask", jj, kk>>)],
                          bb, Mask(aa[jj], kk), jj, 0),
                    aa, bb, kk, jj + 1)

(***************************************************************************)
(* Lines 29-39: for j := 0; j < t; j++ { mask; fold }                      *)
(***************************************************************************)
RECURSIVE FoldJ(_, _, _, _, _)
FoldJ(st, aa, bb, kk, jj) ==
    IF jj >= t THEN st
    ELSE FoldJ(FoldI([c   |-> st.c,
                      log |-> Append(st.log, <<"mask", jj, kk>>)],
                     bb, Mask(aa[jj], kk), jj, 0),
               aa, bb, kk, jj + 1)

(***************************************************************************)
(* Lines 40-43: the multi-word shift of b by one bit.  The loop runs from  *)
(* i = t down to 1, so b[i-1] is still the old word when b[i] reads it.    *)
(***************************************************************************)
\* the shift with the loop ascending (for i := 1; i <= t; i++), so that
\* b[i] reads a word that has already been shifted
RECURSIVE ShiftUpFrom(_, _)
ShiftUpFrom(bb, ii) ==
    IF ii > t THEN [bb EXCEPT ![0] = Shl(@, 1)]
    ELSE ShiftUpFrom([bb EXCEPT ![ii] = Or(Shl(@, 1), Shr(bb[ii - 1], 63))],
                     ii + 1)

ShiftBAscending(bb) == ShiftUpFrom(bb, 1)

RECURSIVE ShiftFrom(_, _)
ShiftFrom(bb, ii) ==
    IF ii <= 0 THEN [bb EXCEPT ![0] = Shl(@, 1)]
    ELSE ShiftFrom([bb EXCEPT ![ii] = Or(Shl(@, 1), Shr(bb[ii - 1], 63))],
                   ii - 1)

ShiftB(bb) == ShiftFrom(bb, t)

\* the bit of b[t] that b[t]<<1 discards
ShiftedOut(bb) == IF (W - 1) \in bb[t] THEN 1 ELSE 0

RECURSIVE ShiftLog(_)
ShiftLog(ii) ==
    IF ii <= 0 THEN <<<<"shl", 0>>>>
    ELSE <<<<"shl-or", ii, ii - 1>>>> \o ShiftLog(ii - 1)

(***************************************************************************)
(* Lines 51-57: one iteration of the reduction loop, in statement order.   *)
(***************************************************************************)
\* the reduction with the first shift transcribed as 11 instead of 10
ReduceStepShift11(cc, ii) ==
    LET c1 == [cc EXCEPT ![ii - 4] = Xor(@, Shl(cc[ii], 11))]
        c2 == [c1 EXCEPT ![ii - 3] = Xor(@, Shr(c1[ii], 54))]
        c3 == [c2 EXCEPT ![ii - 4] = Xor(@, Shl(c2[ii], 5))]
        c4 == [c3 EXCEPT ![ii - 3] = Xor(@, Shr(c3[ii], 59))]
        c5 == [c4 EXCEPT ![ii - 4] = Xor(@, Shl(c4[ii], 2))]
        c6 == [c5 EXCEPT ![ii - 3] = Xor(@, Shr(c5[ii], 62))]
    IN  [c6 EXCEPT ![ii - 4] = Xor(@, c6[ii])]

\* the reduction without line 52, the bits of c[i] << 10 that cross into c[i-3]
ReduceStepNoSpill(cc, ii) ==
    LET c1 == [cc EXCEPT ![ii - 4] = Xor(@, Shl(cc[ii], 10))]
        c3 == [c1 EXCEPT ![ii - 4] = Xor(@, Shl(c1[ii], 5))]
        c4 == [c3 EXCEPT ![ii - 3] = Xor(@, Shr(c3[ii], 59))]
        c5 == [c4 EXCEPT ![ii - 4] = Xor(@, Shl(c4[ii], 2))]
        c6 == [c5 EXCEPT ![ii - 3] = Xor(@, Shr(c5[ii], 62))]
    IN  [c6 EXCEPT ![ii - 4] = Xor(@, c6[ii])]

\* the reduction folding every overflow word from a copy taken before the
\* loop, so that what the i = 7 fold spills into c[4] is never folded
ReduceStepStale(cc, ii) ==
    LET src == IF ii = t
               THEN Xor(Xor(cc[t], Shr(cc[2 * t - 1], 54)),
                        Xor(Shr(cc[2 * t - 1], 59), Shr(cc[2 * t - 1], 62)))
               ELSE cc[ii]
        c1 == [cc EXCEPT ![ii - 4] = Xor(@, Shl(src, 10))]
        c2 == [c1 EXCEPT ![ii - 3] = Xor(@, Shr(src, 54))]
        c3 == [c2 EXCEPT ![ii - 4] = Xor(@, Shl(src, 5))]
        c4 == [c3 EXCEPT ![ii - 3] = Xor(@, Shr(src, 59))]
        c5 == [c4 EXCEPT ![ii - 4] = Xor(@, Shl(src, 2))]
        c6 == [c5 EXCEPT ![ii - 3] = Xor(@, Shr(src, 62))]
    IN  [c6 EXCEPT ![ii - 4] = Xor(@, src)]

ReduceStep(cc, ii) ==
    LET c1 == [cc EXCEPT ![ii - 4] = Xor(@, Shl(cc[ii], 10))]
        c2 == [c1 EXCEPT ![ii - 3] = Xor(@, Shr(c1[ii], 54))]
        c3 == [c2 EXCEPT ![ii - 4] = Xor(@, Shl(c2[ii], 5))]
        c4 == [c3 EXCEPT ![ii - 3] = Xor(@, Shr(c3[ii], 59))]
        c5 == [c4 EXCEPT ![ii - 4] = Xor(@, Shl(c4[ii], 2))]
        c6 == [c5 EXCEPT ![ii - 3] = Xor(@, Shr(c5[ii], 62))]
    IN  [c6 EXCEPT ![ii - 4] = Xor(@, c6[ii])]

ReduceLog(ii) ==
    << <<"xor-shl", ii - 4, ii, 10>>, <<"xor-shr", ii - 3, ii, 54>>,
       <<"xor-shl", ii - 4, ii, 5>>,  <<"xor-shr", ii - 3, ii, 59>>,
       <<"xor-shl", ii - 4, ii, 2>>,  <<"xor-shr", ii - 3, ii, 62>>,
       <<"xor", ii - 4, ii>> >>

\* Unpack with the offset read as i & (0x07 << 3), the precedence of C
UnpackCPrec(cc) == [n \in 1..NBytes |->
                       Byte(Shr(cc[(n - 1) \div 8], ((n - 1) \div 8) * 8))]

(***************************************************************************)
(* Lines 59-62: C[i] = byte(c[i>>3] >> (i & 0x07 << 3))                    *)
(***************************************************************************)
Unpack(cc) == [n \in 1..NBytes |->
                  Byte(Shr(cc[(n - 1) \div 8], ((n - 1) % 8) * 8))]

(***************************************************************************)
(* Lines 28-44: one pass of the outer loop body for bit position kk, on    *)
(* the pair [c, b]: the fold for j = 0..t-1, then the shift of b.          *)
(***************************************************************************)
CombIter(cb, aa, kk) ==
    Then(FoldJ([c |-> cb.c, log |-> <<>>], aa, cb.b, kk, 0),
         LAMBDA st : Then(ShiftB(cb.b),
                          LAMBDA sb : [c |-> st.c, b |-> sb]))

(***************************************************************************)
(* for k := lo; k < hi; k++ { CombIter }.  The range is walked in          *)
(* ascending order; it is split in halves, and the first half is computed  *)
(* to a value before the second starts, only to keep the evaluation        *)
(* shallow.                                                                *)
(***************************************************************************)
RECURSIVE CombRange(_, _, _, _)
CombRange(cb, aa, lo, hi) ==
    IF hi <= lo THEN cb
    ELSE IF hi = lo + 1 THEN CombIter(cb, aa, lo)
    ELSE LET mid == (lo + hi) \div 2
         IN  Then(CombRange(cb, aa, lo, mid),
                  LAMBDA half : CombRange(half, aa, mid, hi))

\* lines 50-58: for i := 2*t - 1; i >= t; i-- { ReduceStep }
RECURSIVE ReduceFrom(_, _)
ReduceFrom(cc, ii) ==
    IF ii < t THEN cc ELSE ReduceFrom(ReduceStep(cc, ii), ii - 1)

(***************************************************************************)
(* Lines 11-64: the whole function, for inputs of at least 32 bytes (a     *)
(* shorter one makes A[i] or B[i] panic, see PackPanic).                   *)
(***************************************************************************)
binaryFieldMul(AA, BB) ==
    Then(Pack(AA, t), LAMBDA pa :
    Then(Pack(BB, t + 1), LAMBDA pb :
    Then(CombRange([c |-> Zeros(2 * t), b |-> pb], pa, 0, W), LAMBDA cb :
    Then(ReduceFrom(cb.c, 2 * t - 1), LAMBDA cr :
    Unpack(cr)))))

(***************************************************************************)
(* The callers' inputs.                                                    *)
(***************************************************************************)
Bytes(first, rest, len) == [n \in 1..len |-> IF n = 1 THEN first ELSE rest]

\* what rand.Read may return: any 32 bytes; the model draws these
Rnd(n) == [j \in 1..NBytes |->
              (n * n * 57 + j * j * 7 + n * j * 29 + 13 * j + 165) % 256]

Vec(n) ==
    CASE n = 1 -> Bytes(0, 0, NBytes)
      [] n = 2 -> Bytes(1, 0, NBytes)
      [] n = 3 -> Bytes(3, 0, NBytes)
      [] n = 4 -> Bytes(5, 0, NBytes)
      [] n = 5 -> Bytes(255, 255, NBytes)
      [] n = 6 -> [j \in 1..NBytes |-> IF j = NBytes THEN 128 ELSE 0]
      [] n = 7 -> [j \in 1..NBytes |-> IF j <= 16 THEN Rnd(7)[j] ELSE 0]
      [] OTHER -> Rnd(n)

ShortVec == Bytes(3, 0, NBytes - 1)
LongVec == [j \in 1..(NBytes + 1) |-> IF j = 1 THEN 3 ELSE IF j = NBytes + 1 THEN 255 ELSE 0]

Inputs == {Vec(n) : n \in 1..NumVec} \cup {ShortVec, LongVec}
Seeds == {Rnd(n) : n \in 1..NumSeed}

d1 == Bytes(3, 0, NBytes)
d2 == Bytes(5, 0, NBytes)

(***************************************************************************)
(* One call of binaryFieldMul, a step per loop iteration.                  *)
(***************************************************************************)
Init ==
    /\ pc = "pack"
    /\ A \in Inputs
    /\ B \in Inputs
    /\ a = Zeros(t)
    /\ b = Zeros(t + 1)
    /\ c = Zeros(2 * t)
    /\ k = 0
    /\ i = 0
    /\ C = <<>>
    /\ ops = <<>>
    /\ nops = 0
    /\ carry = 0
    /\ mpc = "off"
    /\ d3 = <<>>
    /\ temp = <<>>
    /\ expected = <<>>
    /\ count = 0

PackLog == [n \in 1..NBytes |-> <<"pack", (n - 1) \div 8, n - 1>>]

\* lines 24-27 with both slices long enough
PackWords ==
    /\ pc = "pack"
    /\ Len(A) >= NBytes
    /\ Len(B) >= NBytes
    /\ a' = Pack(A, t)
    /\ b' = Pack(B, t + 1)
    /\ ops' = PackLog
    /\ nops' = nops + Len(PackLog)
    /\ pc' = "comb"
    /\ UNCHANGED <<A, B, c, k, i, C, carry, mainVars>>

\* lines 25-26 when A[i] or B[i] is out of range: a run-time panic
PackPanic ==
    /\ pc = "pack"
    /\ (Len(A) < NBytes \/ Len(B) < NBytes)
    /\ pc' = "panic"
    /\ UNCHANGED <<A, B, a, b, c, k, i, C, ops, nops, carry, mainVars>>

\* lines 28-44, one iteration of the k loop
CombStep ==
    /\ pc = "comb"
    /\ k < W
    /\ LET st == FoldJ([c |-> c, log |-> <<>>], a, b, k, 0)
       IN  /\ c' = st.c
           /\ ops' = st.log \o ShiftLog(t)
           /\ nops' = nops + Len(st.log) + Len(ShiftLog(t))
    /\ carry' = ShiftedOut(b)
    /\ b' = ShiftB(b)
    /\ k' = k + 1
    /\ pc' = IF k + 1 < W THEN "comb" ELSE "reduce"
    /\ i' = IF k + 1 < W THEN i ELSE 2 * t - 1
    /\ UNCHANGED <<A, B, a, C, mainVars>>

\* lines 50-58, one iteration of the i loop
Reduce ==
    /\ pc = "reduce"
    /\ i >= t
    /\ c' = ReduceStep(c, i)
    /\ ops' = ReduceLog(i)
    /\ nops' = nops + Len(ReduceLog(i))
    /\ i' = i - 1
    /\ pc' = IF i - 1 >= t THEN "reduce" ELSE "unpack"
    /\ UNCHANGED <<A, B, a, b, k, C, carry, mainVars>>

UnpackLog == [n \in 1..NBytes |-> <<"unpack", n - 1, (n - 1) \div 8>>]

\* lines 59-63
UnpackBytes ==
    /\ pc = "unpack"
    /\ C' = Unpack(c)
    /\ ops' = UnpackLog
    /\ nops' = nops + Len(UnpackLog)
    /\ pc' = "done"
    /\ UNCHANGED <<A, B, a, b, c, k, i, carry, mainVars>>

Next == PackWords \/ PackPanic \/ CombStep \/ Reduce \/ UnpackBytes

Spec == Init /\ [][Next]_vars

(***************************************************************************)
(* main (lines 84-116): the 3 x 5 demonstration, then 256 squarings of a   *)
(* random value.                                                           *)
(***************************************************************************)
MainInit ==
    /\ mpc = "demo"
    /\ d3 = <<>>
    /\ temp = <<>>
    /\ expected = <<>>
    /\ count = 0
    /\ pc = "off"
    /\ A = <<>>
    /\ B = <<>>
    /\ a = Zeros(t)
    /\ b = Zeros(t + 1)
    /\ c = Zeros(2 * t)
    /\ k = 0
    /\ i = 0
    /\ C = <<>>
    /\ ops = <<>>
    /\ nops = 0
    /\ carry = 0

\* lines 90-97
Demo ==
    /\ mpc = "demo"
    /\ d3' = binaryFieldMul(d1, d2)
    /\ mpc' = "rand"
    /\ UNCHANGED <<temp, expected, count, callVars>>

\* lines 99-104
RandRead ==
    /\ mpc = "rand"
    /\ temp' \in Seeds
    /\ expected' = temp'
    /\ count' = 0
    /\ mpc' = "loop"
    /\ UNCHANGED <<d3, callVars>>

\* lines 105-111, one iteration
Square ==
    /\ mpc = "loop"
    /\ count < LoopCount
    /\ temp' = binaryFieldMul(temp, temp)
    /\ count' = count + 1
    /\ mpc' = IF count + 1 < LoopCount THEN "loop" ELSE "print"
    /\ UNCHANGED <<d3, expected, callVars>>

MainNext == Demo \/ RandRead \/ Square

MainSpec == MainInit /\ [][MainNext]_vars

(***************************************************************************)
(* Reference arithmetic in GF(2)[X], independent of the word layout: a     *)
(* polynomial is the set of the exponents of its non-zero terms.           *)
(***************************************************************************)
Modulus == {256, 10, 5, 2, 0}

Deg(P) == IF P = {} THEN -1 ELSE CHOOSE d \in P : \A e \in P : e <= d

\* carry-less product: the coefficient of X^d is the parity of the number
\* of pairs (p, d - p) of terms
ClMul(P, Q) ==
    {d \in 0..(2 * W * t - 1) : Cardinality({p \in P : (d - p) \in Q}) % 2 = 1}

\* one step of long division: cancel the term X^d, if present, with X^(d-256) * f
DivStep(P, d) ==
    IF d \in P THEN Xor(P, {e + d - 256 : e \in Modulus}) ELSE P

\* long division from degree hi down to degree lo
RECURSIVE DivRange(_, _, _)
DivRange(P, hi, lo) ==
    IF hi < lo THEN P
    ELSE IF hi = lo THEN DivStep(P, hi)
    ELSE LET mid == (lo + hi) \div 2
         IN  Then(DivRange(P, hi, mid + 1), LAMBDA R : DivRange(R, mid, lo))

PolyMod(P) == DivRange(P, 2 * W * t - 1, 256)

\* little-endian decoding and encoding of a byte buffer
DecodeLE(bytes) ==
    {8 * (n - 1) + p : n \in 1..Len(bytes), p \in 0..7} \cap
    {e \in 0..(8 * Len(bytes) - 1) : (bytes[(e \div 8) + 1] \div (2 ^ (e % 8))) % 2 = 1}

EncodeLE(P) ==
    [n \in 1..NBytes |->
        LET bit(p) == IF (8 * (n - 1) + p) \in P THEN 2 ^ p ELSE 0
        IN  bit(0) + bit(1) + bit(2) + bit(3) + bit(4) + bit(5) + bit(6) + bit(7)]

\* the polynomial held by words 0..n-1 of a word vector
PolyOfWords(words, n) ==
    UNION {{W * w + p : p \in words[w]} : w \in 0..(n - 1)}

ValidLengths == Len(A) = NBytes /\ Len(B) = NBytes
Product == ClMul(DecodeLE(A), DecodeLE(B))

(***************************************************************************)
(* C1: for 32-byte inputs the returned buffer is the little-endian         *)
(* encoding of (A(X) * B(X)) mod f(X), computed by carry-less              *)
(* multiplication followed by long division.                               *)
(***************************************************************************)
C1_MulIsProductModF ==
    (pc = "done" /\ ValidLengths) => C = EncodeLE(PolyMod(Product))

\* a returned product whose unreduced degree reaches into the top word
C1_Witness ==
    /\ pc = "done"
    /\ ValidLengths
    /\ Deg(Product) >= 7 * W
    /\ C = EncodeLE(PolyMod(Product))

ZeroRunOps(kk) ==
    FoldJ([c |-> Zeros(2 * t), log |-> <<>>], Zeros(t), Zeros(t + 1), kk, 0).log
        \o ShiftLog(t)

ZeroRunCount(kk) == Len(PackLog) + kk * Len(ZeroRunOps(0))

C3_OperationsIndependentOfData ==
    ValidLengths =>
        /\ (pc = "comb" /\ k = 0) => (ops = PackLog /\ nops = ZeroRunCount(0))
        /\ (pc \in {"comb", "reduce"} /\ k > 0 /\ i \in {0, 2 * t - 1})
              => (ops = ZeroRunOps(k - 1) /\ nops = ZeroRunCount(k))
        /\ (pc \in {"reduce", "unpack"} /\ i < 2 * t - 1 /\ k = W)
              => (ops = ReduceLog(i + 1)
                  /\ nops = ZeroRunCount(W) + (2 * t - 1 - i) * Len(ReduceLog(0)))
        /\ pc = "done"
              => (ops = UnpackLog
                  /\ nops = ZeroRunCount(W) + t * Len(ReduceLog(0)) + Len(UnpackLog))
        /\ pc \in {"pack", "comb", "reduce", "unpack", "done"}
        /\ (pc = "pack") = (nops = 0)
        /\ (pc = "comb") = (nops > 0 /\ k < W)
        /\ (pc = "reduce") = (k = W /\ i >= t)
        /\ (pc \in {"unpack", "done"}) = (k = W /\ i < t)

\* a fold in which one word of A selected B (mask all ones) and another did
\* not (mask zero), logged exactly as the all-zero run
C3_Witness ==
    /\ pc = "comb"
    /\ k = 1
    /\ ValidLengths
    /\ 0 \in a[0]
    /\ 0 \notin a[1]
    /\ b # Zeros(t + 1)
    /\ ops = ZeroRunOps(0)

(***************************************************************************)
(* C4: multiplication is commutative: the buffer returned for (A, B) is    *)
(* the one binaryFieldMul returns for (B, A).                              *)
(***************************************************************************)
C4_Commutative ==
    (pc = "done" /\ ValidLengths) => C = binaryFieldMul(B, A)

C4_Witness ==
    /\ pc = "done"
    /\ ValidLengths
    /\ A # B
    /\ Deg(DecodeLE(A)) # Deg(DecodeLE(B))
    /\ Deg(Product) >= 256
    /\ C = binaryFieldMul(B, A)

(***************************************************************************)
(* C5: after the 256 squarings of main, the final value equals the value   *)
(* printed as Expected, the copy of the initial seed.                      *)
(***************************************************************************)
C5_FinalIsExpected ==
    mpc = "print" => (count = LoopCount /\ temp = expected)

C5_Witness ==
    /\ mpc = "print"
    /\ count = LoopCount
    /\ expected \in Seeds
    /\ temp = expected

(***************************************************************************)
(* C6: when deg(A) + deg(B) < 256 no reduction is triggered: after the     *)
(* comb loop the upper four words are zero, the fold loop leaves c[0..3]   *)
(* equal to the plain carry-less product, and that product is returned.    *)
(* In particular 0x03.. times 0x05.. returns 0x0F followed by 31 zeros.    *)
(***************************************************************************)
C6_NoReductionBelow256 ==
    /\ (ValidLengths /\ Deg(DecodeLE(A)) + Deg(DecodeLE(B)) < 256
            /\ pc \in {"reduce", "unpack", "done"})
          => /\ \A w \in t..(2 * t - 1) : c[w] = {}
             /\ PolyOfWords(c, t) = Product
             /\ pc = "done" => C = EncodeLE(Product)
    /\ (pc = "done" /\ A = d1 /\ B = d2) => C = Bytes(15, 0, NBytes)

\* a product of degree 246, which fills the low four words, returned as is
C6_Witness ==
    /\ pc = "done"
    /\ ValidLengths
    /\ Deg(DecodeLE(A)) + Deg(DecodeLE(B)) < 256
    /\ Deg(Product) > 3 * W
    /\ C = EncodeLE(Product)

(***************************************************************************)
(* C7: 0x01 followed by 31 zero bytes is the multiplicative identity:      *)
(* binaryFieldMul(A, one) = A byte for byte, and unpacking the packed      *)
(* words of a 32-byte buffer gives the buffer back.                        *)
(***************************************************************************)
C7_Identity ==
    /\ (pc = "done" /\ ValidLengths /\ B = Bytes(1, 0, NBytes)) => C = A
    /\ (pc = "comb" /\ ValidLengths) => Unpack(a) = A

C7_Witness ==
    /\ pc = "done"
    /\ ValidLengths
    /\ B = Bytes(1, 0, NBytes)
    /\ Deg(DecodeLE(A)) = 255
    /\ \E n \in 1..NBytes : A[n] \notin {0, 255}
    /\ C = A

(***************************************************************************)
(* C8: after the 64 iterations of the comb loop the 8-word accumulator     *)
(* holds the carry-less product of the packed operands, and bit 511 of it  *)
(* is 0.                                                                   *)
(***************************************************************************)
C8_CombIsCarrylessProduct ==
    (pc = "reduce" /\ i = 2 * t - 1 /\ ValidLengths)
        => /\ PolyOfWords(c, 2 * t)
                  = ClMul(PolyOfWords(a, t), PolyOfWords(Pack(B, t), t))
           /\ (W - 1) \notin c[2 * t - 1]

\* a product of the largest degree, 510
C8_Witness ==
    /\ pc = "reduce"
    /\ i = 2 * t - 1
    /\ ValidLengths
    /\ (W - 2) \in c[2 * t - 1]
    /\ PolyOfWords(c, 2 * t) = Product

(***************************************************************************)
(* C9: after the single top-down pass i = 7, 6, 5, 4 the words c[0..3]     *)
(* hold the product modulo f(X), and the returned bytes are those of       *)
(* c[0..3] alone, whatever c[4..7] hold.                                   *)
(***************************************************************************)
C9_SinglePassReduces ==
    (pc \in {"unpack", "done"} /\ ValidLengths)
        => /\ PolyOfWords(c, t)
                 = PolyMod(ClMul(PolyOfWords(a, t), PolyOfWords(Pack(B, t), t)))
           /\ pc = "done" => DecodeLE(C) = PolyOfWords(c, t)

\* the i = 7 fold has spilled into c[4] (it no longer holds the product's
\* word 4), c[4..7] are all non-zero, and the result is still the remainder
C9_Witness ==
    /\ pc = "done"
    /\ ValidLengths
    /\ \A w \in t..(2 * t - 1) : c[w] # {}
    /\ c[t] # {e - W * t : e \in {d \in Product : d \in (W * t)..(W * t + W - 1)}}
    /\ DecodeLE(C) = PolyMod(Product)

(***************************************************************************)
(* C10: at the start of every outer iteration k the shift buffer is        *)
(* B(X) * X^k, the bit shifted out of the top of b[4] is always 0, and     *)
(* every accumulator index written by the fold lies within 0..7.           *)
(***************************************************************************)
C10_ShiftBufferInvariant ==
    ValidLengths =>
        /\ (pc = "comb" /\ k \in 0..(W - 1))
              => PolyOfWords(b, t + 1) = {e + k : e \in DecodeLE(B)}
        /\ carry = 0
        /\ \A n \in 1..Len(ops) :
              ops[n][1] = "xor-and" => (ops[n][2] \in 0..(2 * t - 1) /\ ops[n][3] \in 0..t)

\* the last iteration with an operand of degree 255: the buffer reaches bit 318
C10_Witness ==
    /\ pc = "comb"
    /\ k = W - 1
    /\ ValidLengths
    /\ (W - 2) \in b[t]
    /\ PolyOfWords(b, t + 1) = {e + k : e \in DecodeLE(B)}

====
